---- MODULE Spec2Model ----
(***************************************************************************)
(* Weighted K-Means engine of KMeans_Model_Back/main.py: kmeans and its    *)
(* helpers, the silhouette evaluator, the optimal-k search and the /kmeans *)
(* endpoint.                                                               *)
(*                                                                         *)
(* Arithmetic.  The source computes in IEEE doubles; the model computes in *)
(* exact rationals [n |-> numerator, d |-> denominator > 0] in lowest      *)
(* terms, so that equal values are equal records.  np.linalg.norm followed *)
(* by argmin is modelled by comparing squared distances (the square root   *)
(* is monotone); distancia_euclidiana, whose value is averaged, takes the  *)
(* exact integer root, and the specifications that use it draw the points  *)
(* from a set whose pairwise distances are integers.                       *)
(*                                                                         *)
(* Random stream.  np.random is one process-wide stream.  Its state is the *)
(* variable rng.  Every function that draws takes the drawn values as an   *)
(* argument; the caller either leaves them unconstrained (any stream) or   *)
(* reads them from the state with RandBelow (a deterministic generator:    *)
(* the same state always yields the same values).                          *)
(***************************************************************************)
EXTENDS Integers, Sequences, FiniteSets, TLC

VARIABLES
    X,                      \* the points, a sequence of <<x, y>>
    W,                      \* the weights, one per point
    k,                      \* kmeans' k
    max_iter,               \* kmeans' max_iter
    tol,                    \* kmeans' tol, a rational
    pc,                     \* position of the running call
    ret,                    \* the callers waiting for the running call, innermost first
    centroides,             \* [0..k-1 -> centroid]
    centroides_anteriores,  \* the centroids the last iteration started from
    etiquetas,              \* [1..n -> 0..k-1], the assignment vector
    iteracion,              \* the loop variable of kmeans (0-based), -1 before the loop
    cambio,                 \* the summed absolute centroid change of the last iteration
    historial,              \* history: for the last two completed iterations, the SSE
                            \* (calcular_sse of its labels and centroids) and whether
                            \* its update re-seeded a cluster
    resultado,              \* what kmeans returned or raised
    rng,                    \* state of the shared random stream (np.random)
    n_samples,              \* encontrar_k_optimo's n_samples
    k_range,                \* the candidates the search has still to try
    mejor,                  \* mejor_k and mejor_silhouette
    k_optimo,               \* what the last search returned (k_optimo_calculado)
    recomendaciones,        \* history: what every finished search returned
    sample_size,            \* calcular_silhouette_score's sample_size: {} is None, {m} is m
    silhouette,             \* what the last calcular_silhouette_score returned
    peticion,               \* the request of /kmeans
    respuesta               \* the response of /kmeans

inputs == <<X, W>>

kmArgs == <<k, max_iter, tol>>

kmLocals == <<centroides, centroides_anteriores, etiquetas, iteracion, cambio,
              historial, resultado>>

searchVars == <<n_samples, k_range, mejor, k_optimo, recomendaciones>>

silVars == <<sample_size, silhouette>>

epVars == <<peticion, respuesta>>

vars == <<inputs, kmArgs, pc, ret, kmLocals, rng, searchVars, silVars, epVars>>

----------------------------------------------------------------------------
(* Bounds of the model *)

MaxN == 3

MaxIter == 2

LargeN == 4

RngPeriod == 7

MaxCalls == 2

(* Program constants *)

NFeatures == 2

DefaultMaxIter == 300

SearchSeed == 42

SilhouetteSampleCap == 500

SmallDataset == 100

MediumDataset == 500

MaxKSmall == 6

MaxKMedium == 8

MaxKLarge == 10

HeuristicLimit == 2000

HeuristicK == 5

----------------------------------------------------------------------------
(* Exact rationals *)

RECURSIVE GCD(_, _)
GCD(a, b) == IF b = 0 THEN a ELSE GCD(b, a % b)

IAbs(a) == IF a < 0 THEN -a ELSE a

Rat(num, den) ==
    LET g == GCD(IAbs(num), IAbs(den))
        s == IF den < 0 THEN -1 ELSE 1
    IN  [n |-> s * (num \div g), d |-> s * (den \div g)]

RInt(i) == [n |-> i, d |-> 1]

RZero == RInt(0)

RAdd(a, b) ==
    LET g == GCD(a.d, b.d)
    IN  Rat(a.n * (b.d \div g) + b.n * (a.d \div g), a.d * (b.d \div g))

RNeg(a) == [n |-> -a.n, d |-> a.d]

RSub(a, b) == RAdd(a, RNeg(b))

RMul(a, b) ==
    LET g1 == GCD(IAbs(a.n), b.d)
        g2 == GCD(IAbs(b.n), a.d)
    IN  Rat((a.n \div g1) * (b.n \div g2), (a.d \div g2) * (b.d \div g1))

RDiv(a, b) == IF b.n < 0 THEN RMul(a, [n |-> -b.d, d |-> -b.n])
              ELSE RMul(a, [n |-> b.d, d |-> b.n])

RAbs(a) == [n |-> IAbs(a.n), d |-> a.d]

(* a < b, by integer parts and then the reciprocals of the fractional parts: *)
(* no product of a numerator and a denominator is formed.                   *)
RECURSIVE RLess(_, _)
RLess(a, b) ==
    LET fa == a.n \div a.d
        fb == b.n \div b.d
        ra == a.n % a.d
        rb == b.n % b.d
    IN  IF fa # fb THEN fa < fb
        ELSE IF rb = 0 THEN FALSE
        ELSE IF ra = 0 THEN TRUE
        ELSE RLess([n |-> b.d, d |-> rb], [n |-> a.d, d |-> ra])

RLeq(a, b) == ~RLess(b, a)

RMax(a, b) == IF RLess(a, b) THEN b ELSE a

(* Sum of the rationals f[lo], ..., f[hi], in index order *)
RECURSIVE RSum(_, _, _)
RSum(f, lo, hi) == IF hi < lo THEN RZero ELSE RAdd(RSum(f, lo, hi - 1), f[hi])

Features == 1..NFeatures

----------------------------------------------------------------------------
(* K-Means core *)

N(pts) == Len(pts)

(* A centroid is [c |-> <<cx, cy>>, d |-> den]: the point (cx/den, cy/den), *)
(* den > 0, the three integers without a common factor.                    *)
Centroid(coords, den) ==
    LET g == GCD(GCD(IAbs(coords[1]), IAbs(coords[2])), den)
    IN  [c |-> [f \in Features |-> coords[f] \div g], d |-> den \div g]

(* A point of X as a centroid: X[indices].copy() and centroides[i] = X[...] *)
PointAsCentroid(p) == [c |-> p, d |-> 1]

(* Squared Euclidean distance from point p to centroid ctr, times ctr.d^2 *)
SqDistNum(p, ctr) ==
    (p[1] * ctr.d - ctr.c[1]) * (p[1] * ctr.d - ctr.c[1])
    + (p[2] * ctr.d - ctr.c[2]) * (p[2] * ctr.d - ctr.c[2])

SqDist(p, ctr) == Rat(SqDistNum(p, ctr), ctr.d * ctr.d)

(* p is strictly nearer to centroid a than to centroid b *)
Nearer(p, a, b) == SqDistNum(p, a) * (b.d * b.d) < SqDistNum(p, b) * (a.d * a.d)

(* np.argmin over the distances of point p to centroids 0..j: the nearest, *)
(* the first of them on a tie                                              *)
RECURSIVE ArgMin(_, _, _)
ArgMin(p, C, j) ==
    IF j = 0 THEN 0
    ELSE LET best == ArgMin(p, C, j - 1)
         IN  IF Nearer(p, C[j], C[best]) THEN j ELSE best

asignar_clusters(pts, C, kk) == [i \in 1..N(pts) |-> ArgMin(pts[i], C, kk - 1)]

(* Sum of v[j] over the points j <= i labelled cl *)
RECURSIVE ClusterSum(_, _, _, _)
ClusterSum(v, labels, cl, i) ==
    IF i = 0 THEN 0
    ELSE ClusterSum(v, labels, cl, i - 1) + (IF labels[i] = cl THEN v[i] ELSE 0)

ClusterSize(labels, cl) ==
    ClusterSum([j \in DOMAIN labels |-> 1], labels, cl, Len(labels))

(* The clusters the update re-seeds: no member, or no weight *)
NeedsReseed(ws, labels, cl) ==
    \/ ClusterSize(labels, cl) = 0
    \/ ClusterSum(ws, labels, cl, Len(labels)) <= 0

ReseedSet(ws, labels, kk) == {cl \in 0..(kk - 1) : NeedsReseed(ws, labels, cl)}

(* The weighted sum divided by the number of members, not by their weight *)
WeightedMeanByCount(pts, ws, labels, cl) ==
    Centroid([f \in Features |->
                ClusterSum([j \in DOMAIN pts |-> pts[j][f] * ws[j]], labels, cl, Len(pts))],
             ClusterSize(labels, cl))

(* lines 142-147: sum_weighted_points / sum_weights *)
WeightedMean(pts, ws, labels, cl) ==
    Centroid([f \in Features |->
                ClusterSum([j \in DOMAIN pts |-> pts[j][f] * ws[j]], labels, cl, Len(pts))],
             ClusterSum(ws, labels, cl, Len(pts)))

(* actualizar_centroides without its two re-seeding branches: an empty *)
(* cluster keeps its row of np.zeros                                   *)
actualizar_centroides_sin_resiembra(pts, ws, labels, kk, picks) ==
    [cl \in 0..(kk - 1) |->
        IF NeedsReseed(ws, labels, cl)
        THEN [c |-> [f \in Features |-> 0], d |-> 1]
        ELSE WeightedMean(pts, ws, labels, cl)]

(* picks[cl] is what np.random.randint(0, n) returns for re-seeded cluster cl *)
actualizar_centroides(pts, ws, labels, kk, picks) ==
    [cl \in 0..(kk - 1) |->
        IF NeedsReseed(ws, labels, cl)
        THEN PointAsCentroid(pts[picks[cl] + 1])
        ELSE WeightedMean(pts, ws, labels, cl)]

(* Sum over the features of |a - b| for two centroids *)
CentroidChange(a, b) ==
    Rat(IAbs(a.c[1] * b.d - b.c[1] * a.d) + IAbs(a.c[2] * b.d - b.c[2] * a.d),
        a.d * b.d)

(* np.sum(np.abs(centroides - centroides_anteriores)) *)
Cambio(C, Cprev, kk) ==
    RSum([cl \in 0..(kk - 1) |-> CentroidChange(C[cl], Cprev[cl])], 0, kk - 1)

calcular_sse(pts, labels, C) ==
    RSum([i \in 1..N(pts) |-> SqDist(pts[i], C[labels[i]])], 1, N(pts))

(* indices is what np.random.choice(n, k, replace=False) returns *)
inicializar_centroides(pts, kk, indices) ==
    [cl \in 0..(kk - 1) |-> PointAsCentroid(pts[indices[cl + 1] + 1])]

(* The loop without its break: it stops only when the iterations run out *)
LeavesLoopSinBreak(ch, tl, it, mi) == it + 1 >= mi

(* The loop of kmeans ends after iteration it (0-based): `cambio < tol` *)
(* breaks, or range(max_iter) is exhausted                              *)
LeavesLoop(ch, tl, it, mi) == RLess(ch, tl) \/ it + 1 >= mi

----------------------------------------------------------------------------
(* The shared random stream *)

RngStates == 0..(RngPeriod - 1)

(* A stream whose draws are not determined by the model (any = TRUE), or a *)
(* deterministic generator in state s                                      *)
AnyStream == [any |-> TRUE, s |-> 0]

np_random_seed(v) == [any |-> FALSE, s |-> v % RngPeriod]

Advance(r, draws) == [r EXCEPT !.s = (r.s + draws) % RngPeriod]

(* The value below n that the generator yields in state s *)
RandBelow(s, n) == (7 * s * s + 3 * s + 1) % n

(* All results of np.random.choice(n, kk, replace=False): kk distinct indices *)
Selections(n, kk) ==
    {s \in [1..kk -> 0..(n - 1)] : \A a, b \in 1..kk : a # b => s[a] # s[b]}

RemoveAt(seq, i) == [j \in 1..(Len(seq) - 1) |-> IF j < i THEN seq[j] ELSE seq[j + 1]]

(* kk draws without replacement from the sequence rem, starting in state s *)
RECURSIVE PickFrom(_, _, _)
PickFrom(rem, kk, s) ==
    IF kk = 0 THEN <<>>
    ELSE LET v == RandBelow(s, Len(rem)) + 1
         IN  <<rem[v]>> \o PickFrom(RemoveAt(rem, v), kk - 1, (s + 1) % RngPeriod)

(* What np.random.choice(n, kk, replace=False) can return in stream state r *)
Choices(r, n, kk) ==
    IF r.any THEN Selections(n, kk)
    ELSE {PickFrom([i \in 1..n |-> i - 1], kk, r.s)}

(* What the np.random.randint(0, n) calls of one update can return: the *)
(* re-seeded clusters draw in increasing order                          *)
Picks(r, n, empty) ==
    IF r.any THEN [empty -> 0..(n - 1)]
    ELSE {[cl \in empty |->
            RandBelow((r.s + Cardinality({c \in empty : c < cl})) % RngPeriod, n)]}

----------------------------------------------------------------------------
(* Silhouette *)

ISqrt(v) == CHOOSE r \in 0..v : r * r = v

distancia_euclidiana(punto1, punto2) ==
    ISqrt((punto1[1] - punto2[1]) * (punto1[1] - punto2[1])
          + (punto1[2] - punto2[2]) * (punto1[2] - punto2[2]))

(* Sum of the distances from pts[i] to the points j <= upto labelled cl, *)
(* pts[i] itself left out when skipSelf                                  *)
RECURSIVE SumDist(_, _, _, _, _, _)
SumDist(i, pts, labels, cl, skipSelf, upto) ==
    IF upto = 0 THEN 0
    ELSE SumDist(i, pts, labels, cl, skipSelf, upto - 1)
         + (IF labels[upto] = cl /\ ~(skipSelf /\ upto = i)
            THEN distancia_euclidiana(pts[i], pts[upto]) ELSE 0)

calcular_a(i, pts, labels) ==
    LET size == ClusterSize(labels, labels[i])
    IN  IF size <= 1 THEN RZero
        ELSE Rat(SumDist(i, pts, labels, labels[i], TRUE, N(pts)), size - 1)

(* np.unique(etiquetas) *)
Unique(labels) == {labels[j] : j \in DOMAIN labels}

RECURSIVE RMinOf(_)
RMinOf(S) ==
    LET x == CHOOSE y \in S : TRUE
    IN  IF S = {x} THEN x
        ELSE LET m == RMinOf(S \ {x}) IN IF RLess(x, m) THEN x ELSE m

calcular_b(i, pts, labels) ==
    LET distancias_promedio ==
            {Rat(SumDist(i, pts, labels, cl, FALSE, N(pts)), ClusterSize(labels, cl)) :
                cl \in Unique(labels) \ {labels[i]}}
    IN  IF distancias_promedio = {} THEN RZero ELSE RMinOf(distancias_promedio)

calcular_silhouette_punto(i, pts, labels) ==
    LET a == calcular_a(i, pts, labels)
        b == calcular_b(i, pts, labels)
    IN  IF a = RZero THEN RZero
        ELSE RDiv(RSub(b, a), RMax(a, b))

(* `len(np.unique(etiquetas)) <= 1 or len(X) < 2` *)
Degenerate(pts, labels) == Cardinality(Unique(labels)) <= 1 \/ N(pts) < 2

(* `sample_size and n_samples > sample_size`: None and 0 do not sample *)
Samples(pts, ss) == \E m \in ss : m # 0 /\ N(pts) > m

(* The number of indices calcular_silhouette_score draws from the stream *)
SilhouetteDraws(pts, labels, ss) ==
    IF Degenerate(pts, labels) \/ ~Samples(pts, ss) THEN 0
    ELSE CHOOSE m \in ss : TRUE

(* The values of `indices` the stream in state r can produce *)
SilhouetteIndices(r, pts, labels, ss) ==
    IF SilhouetteDraws(pts, labels, ss) = 0
    THEN {[i \in 1..N(pts) |-> i - 1]}
    ELSE Choices(r, N(pts), SilhouetteDraws(pts, labels, ss))

MeanScore(pts, labels, indices) ==
    RDiv(RSum([j \in 1..Len(indices) |->
                  calcular_silhouette_punto(indices[j] + 1, pts, labels)],
              1, Len(indices)),
         RInt(Len(indices)))

(* The score when only `len(X) < 2` returns early *)
calcular_silhouette_score_sin_unique(pts, labels, indices) ==
    IF N(pts) < 2 THEN RZero
    ELSE MeanScore(pts, labels, indices)

calcular_silhouette_score(pts, labels, indices) ==
    IF Degenerate(pts, labels) THEN RZero
    ELSE MeanScore(pts, labels, indices)

----------------------------------------------------------------------------
(* The candidate range of encontrar_k_optimo *)

Min(a, b) == IF a < b THEN a ELSE b

(* int(n_samples / 2) for n_samples >= 0 *)
Half(n) == n \div 2

max_k_eval(n) ==
    IF n < SmallDataset THEN Min(MaxKSmall, Half(n))
    ELSE IF n < MediumDataset THEN Min(MaxKMedium, Half(n))
    ELSE Min(MaxKLarge, Half(n))

(* Every dataset size steps through all k *)
StepAlwaysOne(n) == 1

Step(n) == IF n < MediumDataset THEN 1 ELSE 2

(* range(2, max_k_eval + 1, step), as the sequence of its values *)
KRange(n) ==
    LET count == IF max_k_eval(n) < 2 THEN 0
                 ELSE (max_k_eval(n) - 2) \div Step(n) + 1
    IN  [i \in 1..count |-> 2 + (i - 1) * Step(n)]

(* line 284 *)
EmptyRangeResult(n) == IF n >= 1 THEN 1 ELSE 0

(* mejor_k = 2 and mejor_silhouette = -inf; entrada is history: the stream *)
(* state the search was entered in                                         *)
NegInf == [k |-> 2, neg_inf |-> TRUE, silhouette |-> RZero, entrada |-> AnyStream]

(* `silhouette > mejor_silhouette` *)
Improves(score, best) == best.neg_inf \/ RLess(best.silhouette, score)

----------------------------------------------------------------------------
(* Exceptions of the endpoint *)

(* issubclass(t, base) among ValueError, HTTPException and Exception *)
IsSubclass(t, base) == t = base \/ base = "Exception"

(* The except clauses of run_kmeans, in order: ValueError, then Exception *)
HandleException(exc) ==
    IF IsSubclass(exc.tipo, "ValueError")
    THEN [status_code |-> 400, detail |-> exc.detail]
    ELSE IF IsSubclass(exc.tipo, "Exception")
    THEN [status_code |-> 500, detail |-> [interno |-> exc.detail]]
    ELSE [status_code |-> exc.status_code, detail |-> exc.detail]

----------------------------------------------------------------------------
(* Inputs *)

(* Locations for kmeans alone *)
KLocs == {<<0, 0>>, <<0, 1>>, <<0, 2>>, <<3, 1>>}

(* Locations whose pairwise distances are integers, for the silhouette *)
SLocs == {<<0, 0>>, <<3, 0>>, <<0, 4>>, <<3, 4>>}

Weights == {1, 4}

(* tol=1e-4 is the default of kmeans *)
DefaultTol == Rat(1, 10000)

Tols == {DefaultTol, RInt(1)}

Seeds == {42, 7}

LexLeq(p, q) == p[1] < q[1] \/ (p[1] = q[1] /\ p[2] <= q[2])

(* The sequences of n points of L in non-decreasing order: one *)
(* representative of every multiset of n points                *)
PointSeqsOfLen(L, n) ==
    {s \in [1..n -> L] : \A i \in 1..(n - 1) : LexLeq(s[i], s[i + 1])}

PointSeqs(L, max) == UNION {PointSeqsOfLen(L, n) : n \in 0..max}

(* Weight vectors for n points: all of them 1, or the first one heavier *)
WeightVectors(n) == {[i \in 1..n |-> IF i = 1 THEN w ELSE 1] : w \in Weights}

SampleSizes == {{}} \cup {{m} : m \in 0..MaxN}

NSamples(pts) == {0, 1, N(pts), SmallDataset, MediumDataset}

NoResult == [status |-> "none"]

NoScore == [n |-> 0, d |-> 0]

NoRequest == [num_neighborhoods |-> 0, num_hospitals |-> 0, seed |-> 0]

NoResponse == [status_code |-> 0]

Unset == <<>>

----------------------------------------------------------------------------
(* Calls and returns *)

(* The locals of a fresh activation of kmeans *)
FreshKmeans ==
    /\ centroides' = Unset
    /\ centroides_anteriores' = Unset
    /\ etiquetas' = Unset
    /\ iteracion' = -1
    /\ cambio' = RZero
    /\ historial' = <<>>
    /\ resultado' = NoResult

(* kmeans(X, W, k=kk, max_iter=mi, tol=tl), the caller resuming at back *)
CallKmeans(kk, mi, tl, back) ==
    /\ k' = kk
    /\ max_iter' = mi
    /\ tol' = tl
    /\ FreshKmeans
    /\ pc' = "kmeans"
    /\ ret' = <<back>> \o ret

(* calcular_silhouette_score(X, labels, sample_size=ss) *)
CallSilhouette(labels, ss, back) ==
    /\ etiquetas' = labels
    /\ sample_size' = ss
    /\ pc' = "silhouette"
    /\ ret' = <<back>> \o ret

(* return, or an exception leaving the function: the caller resumes *)
Return ==
    /\ pc' = Head(ret)
    /\ ret' = Tail(ret)

(* The last two entries of the iteration history *)
Window(h, e) == IF Len(h) < 2 THEN Append(h, e) ELSE <<h[2], e>>

----------------------------------------------------------------------------
(* kmeans *)

(* kmeans drawing its initial centroids before it checks n_samples < k *)
kmeans_enter_init_first ==
    /\ pc = "kmeans"
    /\ rng' = Advance(rng, k)
    /\ IF N(X) < k
       THEN /\ resultado' = [status |-> "ValueError", n |-> N(X), k |-> k]
            /\ Return
            /\ UNCHANGED centroides
       ELSE /\ \E indices \in Choices(rng, N(X), k) :
                    centroides' = inicializar_centroides(X, k, indices)
            /\ pc' = "kmeans_loop"
            /\ UNCHANGED <<resultado, ret>>
    /\ UNCHANGED <<inputs, kmArgs, centroides_anteriores, etiquetas, iteracion,
                   cambio, historial, searchVars, silVars, epVars>>

(* lines 156-160: the check of n_samples < k, then inicializar_centroides *)
kmeans_enter ==
    /\ pc = "kmeans"
    /\ IF N(X) < k
       THEN /\ resultado' = [status |-> "ValueError", n |-> N(X), k |-> k]
            /\ Return
            /\ UNCHANGED <<centroides, rng>>
       ELSE /\ \E indices \in Choices(rng, N(X), k) :
                    centroides' = inicializar_centroides(X, k, indices)
            /\ rng' = Advance(rng, k)
            /\ pc' = "kmeans_loop"
            /\ UNCHANGED <<resultado, ret>>
    /\ UNCHANGED <<inputs, kmArgs, centroides_anteriores, etiquetas, iteracion,
                   cambio, historial, searchVars, silVars, epVars>>

(* lines 162-178: one pass of the loop and, when it is the last, the return *)
kmeans_iteration ==
    /\ pc = "kmeans_loop"
    /\ \E labels \in {asignar_clusters(X, centroides, k)} :
       \E empty \in {ReseedSet(W, labels, k)} :
       \E picks \in Picks(rng, N(X), empty) :
       \E C2 \in {actualizar_centroides(X, W, labels, k, picks)} :
       \E ch \in {Cambio(C2, centroides, k)} :
       \E sse \in {calcular_sse(X, labels, C2)} :
         LET it == iteracion + 1 IN
           /\ centroides_anteriores' = centroides
           /\ etiquetas' = labels
           /\ centroides' = C2
           /\ cambio' = ch
           /\ iteracion' = it
           /\ historial' = Window(historial, [sse |-> sse, reseeded |-> empty # {}])
           /\ rng' = Advance(rng, Cardinality(empty))
           /\ IF LeavesLoop(ch, tol, it, max_iter)
              THEN /\ resultado' = [status |-> "ok", etiquetas |-> labels,
                                    centroides |-> C2, sse |-> sse,
                                    iteraciones |-> it + 1]
                   /\ Return
              ELSE /\ pc' = "kmeans_loop"
                   /\ UNCHANGED <<resultado, ret>>
    /\ UNCHANGED <<inputs, kmArgs, searchVars, silVars, epVars>>

----------------------------------------------------------------------------
(* calcular_silhouette_score *)

(* lines 250-263, on X, etiquetas and sample_size *)
silhouette_score ==
    /\ pc = "silhouette"
    /\ \E indices \in SilhouetteIndices(rng, X, etiquetas, sample_size) :
            silhouette' = calcular_silhouette_score(X, etiquetas, indices)
    /\ rng' = Advance(rng, SilhouetteDraws(X, etiquetas, sample_size))
    /\ Return
    /\ UNCHANGED <<inputs, kmArgs, kmLocals, searchVars, sample_size, epVars>>

----------------------------------------------------------------------------
(* encontrar_k_optimo *)

(* The stream left as the caller had it *)
KeepStream(r) == r

(* line 290: np.random.seed(42) *)
SearchStream(r) == np_random_seed(SearchSeed)

(* what the search returns: recorded with the stream state it was entered in *)
SearchReturns(v, entry) ==
    /\ k_optimo' = v
    /\ recomendaciones' = Append(recomendaciones, [k |-> v, entrada |-> entry])
    /\ Return

(* lines 271-290 *)
search_enter ==
    /\ pc = "search"
    /\ IF KRange(n_samples) = <<>>
       THEN /\ SearchReturns(EmptyRangeResult(n_samples), rng)
            /\ UNCHANGED <<k_range, mejor, rng>>
       ELSE /\ k_range' = KRange(n_samples)
            /\ mejor' = [NegInf EXCEPT !.entrada = rng]
            /\ rng' = SearchStream(rng)
            /\ pc' = "search_loop"
            /\ UNCHANGED <<ret, k_optimo, recomendaciones>>
    /\ UNCHANGED <<inputs, kmArgs, kmLocals, n_samples, silVars, epVars>>

(* lines 292-294: the next candidate k, and kmeans(X, W, k=k) *)
search_candidate ==
    /\ pc = "search_loop"
    /\ k_range # <<>>
    /\ CallKmeans(Head(k_range), DefaultMaxIter, DefaultTol, "search_kmeans")
    /\ k_range' = Tail(k_range)
    /\ UNCHANGED <<inputs, rng, n_samples, mejor, k_optimo, recomendaciones,
                   silVars, epVars>>

(* lines 295-299: `except ValueError: continue`, else the silhouette *)
search_kmeans ==
    /\ pc = "search_kmeans"
    /\ IF resultado.status = "ValueError"
       THEN /\ pc' = "search_loop"
            /\ UNCHANGED <<ret, etiquetas, sample_size>>
       ELSE CallSilhouette(resultado.etiquetas,
                           {Min(SilhouetteSampleCap, n_samples)}, "search_compare")
    /\ UNCHANGED <<inputs, kmArgs, centroides, centroides_anteriores, iteracion,
                   cambio, historial, resultado, rng, searchVars, silhouette, epVars>>

(* lines 301-303 *)
search_compare ==
    /\ pc = "search_compare"
    /\ mejor' = IF Improves(silhouette, mejor)
                THEN [mejor EXCEPT !.k = k, !.neg_inf = FALSE,
                                   !.silhouette = silhouette]
                ELSE mejor
    /\ pc' = "search_loop"
    /\ UNCHANGED <<inputs, kmArgs, ret, kmLocals, rng, n_samples, k_range,
                   k_optimo, recomendaciones, silVars, epVars>>

(* line 305 *)
search_return ==
    /\ pc = "search_loop"
    /\ k_range = <<>>
    /\ SearchReturns(mejor.k, mejor.entrada)
    /\ UNCHANGED <<inputs, kmArgs, kmLocals, rng, n_samples, k_range, mejor,
                   silVars, epVars>>

(* The caller seeds the stream as it likes and searches the same data again *)
search_again ==
    /\ pc = "done"
    /\ Len(recomendaciones) < MaxCalls
    /\ \E v \in RngStates : rng' = np_random_seed(v)
    /\ pc' = "search"
    /\ ret' = <<"done">>
    /\ UNCHANGED <<inputs, kmArgs, kmLocals, searchVars, silVars, epVars>>

----------------------------------------------------------------------------
(* run_kmeans, the handler of POST /kmeans *)

(* lines 324-347: the data, then the recommended k *)
run_kmeans_generar ==
    /\ pc = "run_kmeans"
    /\ \E pts \in PointSeqsOfLen(SLocs, peticion.num_neighborhoods) :
       \E ws \in WeightVectors(N(pts)) :
            /\ X' = pts
            /\ W' = ws
            /\ n_samples' = N(pts)
            /\ IF N(pts) < 2
               THEN /\ k_optimo' = 1
                    /\ rng' = Advance(np_random_seed(peticion.seed), 10 + 4 * N(pts))
                    /\ pc' = "run_kmeans_ejecutar"
                    /\ UNCHANGED ret
               ELSE IF N(pts) > HeuristicLimit
               THEN /\ k_optimo' = HeuristicK
                    /\ rng' = Advance(np_random_seed(peticion.seed), 10 + 4 * N(pts))
                    /\ pc' = "run_kmeans_ejecutar"
                    /\ UNCHANGED ret
               ELSE /\ rng' = np_random_seed(peticion.seed)
                    /\ pc' = "search"
                    /\ ret' = <<"run_kmeans_ejecutar">> \o ret
                    /\ UNCHANGED k_optimo
    /\ UNCHANGED <<kmArgs, kmLocals, k_range, mejor, recomendaciones, silVars, epVars>>

(* lines 351-356: the check of n_samples < k_ejecucion, then kmeans *)
run_kmeans_ejecutar ==
    /\ pc = "run_kmeans_ejecutar"
    /\ IF n_samples < peticion.num_hospitals
       THEN /\ respuesta' = [tipo |-> "HTTPException", status_code |-> 400,
                             detail |-> [k |-> peticion.num_hospitals, n |-> n_samples]]
            /\ pc' = "run_kmeans_except"
            /\ UNCHANGED <<kmArgs, ret, kmLocals>>
       ELSE /\ CallKmeans(peticion.num_hospitals, DefaultMaxIter, DefaultTol,
                          "run_kmeans_metricas")
            /\ UNCHANGED respuesta
    /\ UNCHANGED <<inputs, rng, searchVars, silVars, peticion>>

(* lines 356-359: kmeans has returned or raised; the silhouette of its labels *)
run_kmeans_metricas ==
    /\ pc = "run_kmeans_metricas"
    /\ IF resultado.status = "ValueError"
       THEN /\ respuesta' = [tipo |-> "ValueError", status_code |-> 0,
                             detail |-> [k |-> resultado.k, n |-> resultado.n]]
            /\ pc' = "run_kmeans_except"
            /\ UNCHANGED <<ret, etiquetas, sample_size>>
       ELSE /\ CallSilhouette(resultado.etiquetas,
                              {Min(SilhouetteSampleCap, n_samples)},
                              "run_kmeans_responder")
            /\ UNCHANGED respuesta
    /\ UNCHANGED <<inputs, kmArgs, centroides, centroides_anteriores, iteracion,
                   cambio, historial, resultado, rng, searchVars, silhouette, peticion>>

(* lines 396-404 *)
run_kmeans_responder ==
    /\ pc = "run_kmeans_responder"
    /\ respuesta' = [status_code |-> 200,
                     clusters |-> resultado.etiquetas,
                     hospitals |-> resultado.centroides,
                     optimal_clusters |-> k_optimo,
                     sse |-> resultado.sse,
                     silhouette_score |-> silhouette,
                     iterations |-> resultado.iteraciones]
    /\ pc' = "done"
    /\ UNCHANGED <<inputs, kmArgs, ret, kmLocals, rng, searchVars, silVars, peticion>>

(* lines 406-409: the except clauses *)
run_kmeans_except ==
    /\ pc = "run_kmeans_except"
    /\ respuesta' = HandleException(respuesta)
    /\ pc' = "done"
    /\ UNCHANGED <<inputs, kmArgs, ret, kmLocals, rng, searchVars, silVars, peticion>>

----------------------------------------------------------------------------
(* Specifications *)

IdleKmeans ==
    /\ k = 1 /\ max_iter = DefaultMaxIter /\ tol = DefaultTol
    /\ centroides = Unset /\ centroides_anteriores = Unset
    /\ iteracion = -1 /\ cambio = RZero /\ historial = <<>> /\ resultado = NoResult

IdleSearch ==
    /\ k_range = <<>> /\ mejor = NegInf /\ k_optimo = -1 /\ recomendaciones = <<>>

IdleEndpoint == peticion = NoRequest /\ respuesta = NoResponse

(* kmeans(X, W, k, max_iter, tol) called directly, on any stream *)
InitKmeans(Xs) ==
    /\ X \in Xs
    /\ W \in [1..N(X) -> Weights]
    /\ k \in 1..(N(X) + 1)
    /\ max_iter \in 1..MaxIter
    /\ tol \in Tols
    /\ pc = "kmeans" /\ ret = <<"done">>
    /\ centroides = Unset /\ centroides_anteriores = Unset /\ etiquetas = Unset
    /\ iteracion = -1 /\ cambio = RZero /\ historial = <<>> /\ resultado = NoResult
    /\ rng = AnyStream
    /\ n_samples = N(X) /\ IdleSearch
    /\ sample_size = {} /\ silhouette = NoScore
    /\ IdleEndpoint

Init == InitKmeans(PointSeqs(KLocs, MaxN))

Next == kmeans_enter \/ kmeans_iteration

Spec == Init /\ [][Next]_vars

InitLarge == InitKmeans(PointSeqsOfLen(KLocs, LargeN)) /\ k \in 2..(N(X) - 1)

SpecLarge == InitLarge /\ [][Next]_vars

(* calcular_silhouette_score(X, etiquetas, sample_size) called directly *)
InitSil ==
    /\ X \in PointSeqs(SLocs, MaxN)
    /\ W = [i \in 1..N(X) |-> 1]
    /\ etiquetas \in [1..N(X) -> 0..(MaxN - 1)]
    /\ sample_size \in SampleSizes
    /\ silhouette = NoScore
    /\ pc = "silhouette" /\ ret = <<"done">>
    /\ IdleKmeans
    /\ rng = AnyStream
    /\ n_samples = N(X) /\ IdleSearch
    /\ IdleEndpoint

NextSil == silhouette_score

SpecSil == InitSil /\ [][NextSil]_vars

(* encontrar_k_optimo(X, W, n_samples) called MaxCalls times on the same data, *)
(* the first time in a stream state other than the one it seeds               *)
InitSearch ==
    /\ X \in PointSeqs(SLocs, LargeN)
    /\ W \in WeightVectors(N(X))
    /\ n_samples \in NSamples(X)
    /\ pc = "search" /\ ret = <<"done">>
    /\ rng = np_random_seed(SearchSeed + 1)
    /\ IdleKmeans /\ etiquetas = Unset
    /\ IdleSearch
    /\ sample_size = {} /\ silhouette = NoScore
    /\ IdleEndpoint

NextSearch ==
    \/ search_enter \/ search_candidate \/ search_kmeans \/ search_compare
    \/ search_return \/ search_again
    \/ kmeans_enter \/ kmeans_iteration \/ silhouette_score

SpecSearch == InitSearch /\ [][NextSearch]_vars

(* One request to POST /kmeans *)
InitEndpoint ==
    /\ peticion \in [num_neighborhoods : 2..LargeN, num_hospitals : 1..(LargeN + 1),
                     seed : Seeds]
    /\ respuesta = NoResponse
    /\ X = <<>> /\ W = <<>>
    /\ pc = "run_kmeans" /\ ret = <<>>
    /\ rng = np_random_seed(0)
    /\ IdleKmeans /\ etiquetas = Unset
    /\ n_samples = 0 /\ IdleSearch
    /\ sample_size = {} /\ silhouette = NoScore

NextEndpoint ==
    \/ run_kmeans_generar \/ run_kmeans_ejecutar \/ run_kmeans_metricas
    \/ run_kmeans_responder \/ run_kmeans_except
    \/ search_enter \/ search_candidate \/ search_kmeans \/ search_compare
    \/ search_return
    \/ kmeans_enter \/ kmeans_iteration \/ silhouette_score

SpecEndpoint == InitEndpoint /\ [][NextEndpoint]_vars

----------------------------------------------------------------------------
(* Properties of kmeans *)

Finished == pc = "done" /\ resultado.status = "ok"

Raised == pc = "done" /\ resultado.status = "ValueError"

IsPointOfX(ctr) == \E j \in 1..N(X) : ctr = PointAsCentroid(X[j])

(* C1: once kmeans has its centroids there are exactly k of them, and each *)
(* is set: the weighted mean of its cluster, or, for a re-seeded cluster,  *)
(* a point of the dataset.  The result has one label per point, each in    *)
(* 0..k-1.                                                                 *)
C1_KCentroidsAllSet ==
    /\ (pc = "kmeans_loop" \/ Finished) => DOMAIN centroides = 0..(k - 1)
    /\ (pc = "done" /\ N(X) >= k) => Finished
    /\ Finished =>
        /\ resultado.centroides = centroides
        /\ DOMAIN resultado.centroides = 0..(k - 1)
        /\ \A cl \in 0..(k - 1) :
            IF NeedsReseed(W, resultado.etiquetas, cl)
            THEN IsPointOfX(resultado.centroides[cl])
            ELSE resultado.centroides[cl] = WeightedMean(X, W, resultado.etiquetas, cl)
        /\ DOMAIN resultado.etiquetas = 1..N(X)
        /\ \A i \in 1..N(X) : resultado.etiquetas[i] \in 0..(k - 1)

(* a finished call whose last update re-seeded an empty cluster *)
C1_Witness == Finished /\ historial[Len(historial)].reseeded /\ k >= 2 /\ N(X) >= k

(* C3: a call with fewer than k points ends in the ValueError that names *)
(* the point count and k, with no centroids, labels, iteration or result *)
(* produced and the random stream where it was at entry.                 *)
C3_InsufficientSamplesFailsClean ==
    (N(X) < k /\ pc # "kmeans") =>
        /\ pc = "done"
        /\ resultado = [status |-> "ValueError", n |-> N(X), k |-> k]
        /\ centroides = Unset
        /\ etiquetas = Unset
        /\ iteracion = -1
        /\ historial = <<>>
        /\ rng = AnyStream

C3_Witness == Raised /\ N(X) >= 1 /\ k = N(X) + 1

AllSameLocation == \A i \in 1..N(X) : X[i] = X[1]

(* C7: on exactly k points that share one location, kmeans finishes       *)
(* without error and its k centroids all lie at that location.            *)
C7_IdenticalPoints ==
    (N(X) = k /\ AllSameLocation) =>
        /\ ~Raised
        /\ Finished =>
            /\ DOMAIN resultado.centroides = 0..(k - 1)
            /\ \A cl \in 0..(k - 1) : resultado.centroides[cl] = PointAsCentroid(X[1])

C7_Witness ==
    /\ Finished /\ N(X) = k /\ k >= 3 /\ AllSameLocation /\ X[1] # <<0, 0>>
    /\ \E i \in 1..N(X) : W[i] # 1

C9_Counts ==
    /\ iteracion + 1 <= max_iter
    /\ pc = "kmeans_loop" =>
        /\ iteracion + 1 < max_iter
        /\ iteracion >= 0 => ~RLess(cambio, tol)
    /\ Finished =>
        /\ resultado.iteraciones = iteracion + 1
        /\ resultado.iteraciones \in 1..max_iter
        /\ resultado.iteraciones < max_iter => RLess(cambio, tol)
        /\ RLess(cambio, tol) \/ resultado.iteraciones = max_iter

C9_Progress ==
    /\ pc = "kmeans" => pc' \in {"kmeans_loop", "done"} /\ iteracion' = iteracion
    /\ pc = "kmeans_loop" => pc' \in {"kmeans_loop", "done"} /\ iteracion' = iteracion + 1
    /\ pc = "done" => FALSE

(* C9: every call ends: each step of the loop completes one more iteration *)
(* and at most max_iter are completed, and nothing follows the return or   *)
(* the error.  The loop is left at the first iteration whose change is     *)
(* below tol or after max_iter iterations; the reported count is the       *)
(* number of completed iterations, in 1..max_iter, and below max_iter only *)
(* if the last change was below tol.                                       *)
C9_Terminates == []C9_Counts /\ [][C9_Progress]_vars

(* a call that stopped on tol before max_iter, with a change that is not 0 *)
C9_Witness ==
    /\ Finished /\ resultado.iteraciones < max_iter
    /\ cambio # RZero

(* C10: in the result every point carries the index of the centroid that *)
(* is nearest to it among the returned centroids, the lowest on a tie.   *)
C10_LabelsNearestFinalCentroid ==
    Finished =>
        \A i \in 1..N(X) :
            resultado.etiquetas[i] = ArgMin(X[i], resultado.centroides, k - 1)

(* C4: from one full iteration to the next, with no re-seed in either, the *)
(* SSE computed by calcular_sse does not increase.                         *)
C4_SseNonIncreasing ==
    \A t \in 1..(Len(historial) - 1) :
        (~historial[t].reseeded /\ ~historial[t + 1].reseeded)
            => RLeq(historial[t + 1].sse, historial[t].sse)

----------------------------------------------------------------------------
(* Properties of calcular_silhouette_score *)

(* C8: called on labels with fewer than 2 distinct values, or on fewer    *)
(* than 2 points, calcular_silhouette_score returns 0 and leaves the      *)
(* random stream as it was, for every sample_size.                        *)
C8_DegenerateScoreZero ==
    (pc = "done" /\ (Cardinality({etiquetas[i] : i \in DOMAIN etiquetas}) < 2
                     \/ N(X) < 2)) =>
        /\ silhouette = RZero
        /\ rng = AnyStream

(* two points or more in one cluster, not all at one place, and a *)
(* sample_size that would sample                                   *)
C8_Witness ==
    /\ pc = "done" /\ N(X) >= 3 /\ sample_size = {2}
    /\ \A i \in 1..N(X) : etiquetas[i] = 1
    /\ \E i \in 1..N(X) : X[i] # X[1]

----------------------------------------------------------------------------
(* Properties of encontrar_k_optimo *)

SearchDone == pc = "done" /\ recomendaciones # <<>>

(* C5: the search returns a k between 2 and min(6, n/2) when n < 100,  *)
(* between 2 and min(8, n/2) when 100 <= n < 500, and an even k        *)
(* between 2 and min(10, n/2) when n >= 500; when there is no such k   *)
(* it returns 1 for n >= 1 and 0 for n = 0.                            *)
C5_ReturnsCandidate ==
    SearchDone =>
        LET n   == n_samples
            top == IF n < 100 THEN Min(6, n \div 2)
                   ELSE IF n < 500 THEN Min(8, n \div 2)
                   ELSE Min(10, n \div 2)
        IN  IF top >= 2
            THEN /\ k_optimo \in 2..top
                 /\ n >= 500 => k_optimo % 2 = 0
            ELSE k_optimo = (IF n >= 1 THEN 1 ELSE 0)

(* a search over 500 samples that scored the candidates 2 and 4 *)
C5_Witness ==
    /\ SearchDone /\ n_samples >= 500 /\ N(X) >= 4
    /\ ~mejor.neg_inf /\ k_optimo = mejor.k

(* C6: all searches over the same data return the same k, whatever the *)
(* state of the random stream when they were entered.                  *)
C6_SameRecommendation ==
    \A i, j \in DOMAIN recomendaciones :
        recomendaciones[i].k = recomendaciones[j].k

(* two finished searches that ran kmeans, entered in different stream *)
(* states, neither of them the state the search seeds                 *)
C6_Witness ==
    /\ pc = "done" /\ Len(recomendaciones) = 2 /\ ~mejor.neg_inf
    /\ recomendaciones[1].entrada # recomendaciones[2].entrada
    /\ recomendaciones[2].entrada # np_random_seed(SearchSeed)
    /\ recomendaciones[1].entrada # np_random_seed(SearchSeed)

----------------------------------------------------------------------------
(* Properties of POST /kmeans *)

(* C2: a request for more hospitals than there are points is answered *)
(* with status 400 and a detail that names both numbers.              *)
C2_InsufficientSamplesIs400 ==
    (pc = "done" /\ peticion.num_hospitals > N(X)) =>
        /\ respuesta.status_code = 400
        /\ respuesta.detail = [k |-> peticion.num_hospitals, n |-> N(X)]

====
